---- MODULE Spec2Model ----
(***************************************************************************)
(* OE10 pan/tilt protocol engine: the frame segmenter                      *)
(* (utils.find_command_sequences), the response decoder                    *)
(* (OE10Commander.decode_response), the checksum                           *)
(* (OE10Controller._calculate_checksum) and the timed link                 *)
(* (OE10Controller: send / listen / polling).  Each component is a state   *)
(* machine over its own variables with its own specification; the other    *)
(* components rest in their "off" state meanwhile.                         *)
(***************************************************************************)
EXTENDS Integers, Sequences, FiniteSets, TLC

VARIABLES
    \* ---- utils.find_command_sequences
    segPc,              \* position in find_command_sequences
    data,               \* the argument: a list of samples
    segI,               \* index of the next entry of the `for entry in data` loop
    sequences,          \* sequences
    current_sequence,   \* current_sequence
    segJ,               \* index of the next seq of the `for seq in sequences` loop
    valid_sequences,    \* valid_sequences (the return value once segPc = "done")
    \* ---- analyze_samples.analyze_sequence
    analysis,           \* the dict analyze_sequence returned (<<>> before it is called)
    \* ---- OE10Controller._calculate_checksum
    ckPc,               \* position in _calculate_checksum
    ckData,             \* the argument data
    ckI,                \* index of the next byte of the `for byte in data` loop
    checksum,           \* checksum
    ckResult,           \* the returned tuple (value, indicator)
    \* ---- OE10Commander.decode_response
    decPc,              \* position in decode_response
    rdata,              \* the argument data (response bytes)
    decI,               \* i, as a 1-based index
    data_bytes,         \* data_bytes
    decoded,            \* the returned dict
    \* ---- OE10Controller (tilt_sequence.py) and its serial transport
    pc,                 \* position of the controller's thread
    stack,              \* return positions of the calls in progress
    now,                \* time.time(), in ticks of 0.1 ms since main started
    slack,              \* ticks by which sleeps may still overshoot
    command,            \* _send_command_with_timing: command
    txi,                \* _send_command_with_timing: index of the next byte
    sent,               \* bytes written to the transport for the current frame
    inbuf,              \* the transport's input buffer (serial.in_waiting = its length)
    rxCount,            \* bytes the device delivered since the last reset_input_buffer
    wstart,             \* _wait_for_response: start_time
    response,           \* _wait_for_response: response (the bytearray)
    retval,             \* the value the last _wait_for_response returned (<<>> for None)
    pstart,             \* run_polling_sequence: start_time
    last_cmd_time,      \* run_polling_sequence: last_cmd_time
    duration,           \* run_polling_sequence: duration
    moved,              \* what move_to_angle returned ("none" before it returns)
    \* ---- history of the link, for the properties
    ev,                 \* what the last step did to the transport
    txFrames,           \* frame transmissions begun
    listens,            \* listen windows begun
    prevTx,             \* run_polling_sequence: start of the dispatch before the latest (-1: none)
    curTx,              \* run_polling_sequence: start of the latest dispatch (-1: none)
    \* ---- the builders of command frames
    encPc,              \* position in the builder called
    tilt_angle,         \* generate_movement_command: tilt_angle (<<>> for None)
    pan_angle,          \* generate_movement_command: pan_angle (<<>> for None)
    angle,              \* generate_tilt_command / _create_tilt_command: angle
    command_bytes,      \* the frame being built, the return value once encPc = "done"
    \* ---- the transport's failures
    raised,             \* a transport call has raised an exception
    \* ---- OE10Commander's session (oe10_commander.py)
    cmdPc,              \* position of the commander's caller
    serial,             \* self.serial: <<>> for None, <<k>> for the k-th Serial object
    ports,              \* the Serial objects created so far and what was done to each
    calls,              \* calls of connect, disconnect and send_tilt_command so far
    lastCall,           \* the method called last
    cmdResult           \* what the last call that came back returned (<<>> for None)

segVars == <<segPc, data, segI, sequences, current_sequence, segJ, valid_sequences>>

anaVars == <<analysis>>

ckVars == <<ckPc, ckData, ckI, checksum, ckResult>>

decVars == <<decPc, rdata, decI, data_bytes, decoded>>

linkVars == <<pc, stack, now, slack, command, txi, sent, inbuf, rxCount, wstart, response,
              retval, pstart, last_cmd_time, duration, moved, ev, txFrames, listens,
              prevTx, curTx>>

failVars == <<raised>>

encVars == <<encPc, tilt_angle, pan_angle, angle, command_bytes>>

cmdVars == <<cmdPc, serial, ports, calls, lastCall, cmdResult>>

vars == <<segVars, anaVars, ckVars, decVars, linkVars, failVars, encVars, cmdVars>>

\* what each component leaves alone
segOthers == <<anaVars, ckVars, decVars, linkVars, failVars, encVars, cmdVars>>

ckOthers == <<segVars, anaVars, decVars, linkVars, failVars, encVars, cmdVars>>

decOthers == <<segVars, anaVars, ckVars, linkVars, failVars, encVars, cmdVars>>

linkOthers == <<segVars, anaVars, ckVars, decVars, failVars, encVars, cmdVars>>

encOthers == <<segVars, anaVars, ckVars, decVars, linkVars, failVars, cmdVars>>

cmdOthers == <<segVars, anaVars, ckVars, linkVars, failVars, encVars>>

-----------------------------------------------------------------------------
(* Bounds of the model *)

\* longest sample list given to find_command_sequences
MaxSamples == 5

\* longest sample list given to analyze_tx_rx_pair's pipeline
MaxFrameSamples == 4

\* longest byte string given to _calculate_checksum
MaxPayload == 3

\* longest byte string given to decode_response
MaxResponse == 5

\* most bytes the device delivers between two resets of the input buffer
MaxRx == 2

\* most calls made on one OE10Commander
MaxCalls == 4

\* most bytes the device answers to one send_tilt_command
MaxReply == 3

\* ticks by which the sleeps of one execution may overshoot in total
MaxOvershoot == 1

\* longest duration given to run_polling_sequence by main (ticks of 0.1 ms)
MaxPollDuration == 10200

-----------------------------------------------------------------------------
(* Protocol bytes *)

TX_START == 88       \* 0x58
TX_SYNC == 139       \* 0x8B
RX_START == 152      \* 0x98
RX_SYNC == 22        \* 0x16
END_MARKER == 0      \* 0x00

\* a timestamp gap (in sample periods) that may separate two samples
GapTicks == 7

-----------------------------------------------------------------------------
(* utils.find_command_sequences *)

\* byte values the samples of the model carry: both start markers, the end
\* marker, the outbound sync filler and one data byte (0xFD)
SegBytes == {RX_START, TX_START, END_MARKER, TX_SYNC, 253}

\* the samples of the model: the values vs with increasing timestamps, either
\* evenly spaced (g = 0) or with a gap of GapTicks after every end marker
\* (g = 1)
EndsBefore(vs, k) == Cardinality({m \in 1..(k - 1) : vs[m] = END_MARKER})

Sample(vs, k, g) == [timestamp |-> k + g * GapTicks * EndsBefore(vs, k), value |-> vs[k]]

SampleList(vs, g) == [k \in 1..Len(vs) |-> Sample(vs, k, g)]

\* `entry['value'] in [0x98, 0x58]`
IsStartMarkerAlsoSync(v) == v \in {RX_START, TX_START, TX_SYNC}
IsStartMarker(v) == v \in {RX_START, TX_START}

\* `entry['value'] == 0x00`
IsEndMarker(v) == v = END_MARKER

\* `elif current_sequence:` -- an entry is appended only to an open sequence
AppendsAlways(cur) == TRUE
Appends(cur) == cur # <<>>

\* `current_sequence = []` after an end marker
AfterEndKeep(cur) == cur
AfterEnd(cur) == <<>>

\* `if seq and seq[-1]['value'] == 0x00` -- the filter of incomplete sequences
KeepSequenceAll(seq) == TRUE
KeepSequence(seq) == seq # <<>> /\ seq[Len(seq)].value = END_MARKER

SegOff ==
    /\ segPc = "off"
    /\ data = <<>>
    /\ segI = 0
    /\ sequences = <<>>
    /\ current_sequence = <<>>
    /\ segJ = 0
    /\ valid_sequences = <<>>

SegInit ==
    /\ segPc = "scan"
    /\ \E n \in 0..MaxSamples : \E vs \in [1..n -> SegBytes] : \E g \in 0..1 :
          data = SampleList(vs, g)
    /\ segI = 1
    /\ sequences = <<>>
    /\ current_sequence = <<>>
    /\ segJ = 0
    /\ valid_sequences = <<>>

\* one iteration of `for entry in data`, the branch of a start marker
SegStart ==
    /\ segPc = "scan"
    /\ segI <= Len(data)
    /\ IsStartMarker(data[segI].value)
    /\ sequences' = IF current_sequence # <<>>
                    THEN Append(sequences, current_sequence)
                    ELSE sequences
    /\ current_sequence' = <<data[segI]>>
    /\ segI' = segI + 1
    /\ UNCHANGED <<segPc, data, segJ, valid_sequences>>
    /\ UNCHANGED segOthers

\* one iteration of `for entry in data`, the branch `elif current_sequence`
SegAppend ==
    /\ segPc = "scan"
    /\ segI <= Len(data)
    /\ ~IsStartMarker(data[segI].value)
    /\ Appends(current_sequence)
    /\ LET grown == Append(current_sequence, data[segI])
       IN  IF IsEndMarker(data[segI].value)
           THEN /\ sequences' = Append(sequences, grown)
                /\ current_sequence' = AfterEnd(grown)
           ELSE /\ sequences' = sequences
                /\ current_sequence' = grown
    /\ segI' = segI + 1
    /\ UNCHANGED <<segPc, data, segJ, valid_sequences>>
    /\ UNCHANGED segOthers

\* one iteration of `for entry in data` that takes neither branch
SegSkip ==
    /\ segPc = "scan"
    /\ segI <= Len(data)
    /\ ~IsStartMarker(data[segI].value)
    /\ ~Appends(current_sequence)
    /\ segI' = segI + 1
    /\ UNCHANGED <<segPc, data, sequences, current_sequence, segJ, valid_sequences>>
    /\ UNCHANGED segOthers

\* the loop is over: `if current_sequence: sequences.append(current_sequence)`
SegFlush ==
    /\ segPc = "scan"
    /\ segI > Len(data)
    /\ sequences' = IF current_sequence # <<>>
                    THEN Append(sequences, current_sequence)
                    ELSE sequences
    /\ segPc' = "filter"
    /\ segJ' = 1
    /\ UNCHANGED <<data, segI, current_sequence, valid_sequences>>
    /\ UNCHANGED segOthers

\* one iteration of `for seq in sequences`
SegFilter ==
    /\ segPc = "filter"
    /\ segJ <= Len(sequences)
    /\ valid_sequences' = IF KeepSequence(sequences[segJ])
                          THEN Append(valid_sequences, sequences[segJ])
                          ELSE valid_sequences
    /\ segJ' = segJ + 1
    /\ UNCHANGED <<segPc, data, segI, sequences, current_sequence>>
    /\ UNCHANGED segOthers

\* `return valid_sequences`
SegReturn ==
    /\ segPc = "filter"
    /\ segJ > Len(sequences)
    /\ segPc' = "done"
    /\ UNCHANGED <<data, segI, sequences, current_sequence, segJ, valid_sequences>>
    /\ UNCHANGED segOthers

-----------------------------------------------------------------------------
(* analyze_samples: analyze_file and analyze_sequence, as analyze_tx_rx_pair *)
(* runs them on one capture                                                 *)

\* byte values of the captures: the markers and sync fillers of both
\* directions and two data bytes (0xFD, 0xF9)
AnaBytes == {TX_START, RX_START, TX_SYNC, RX_SYNC, END_MARKER, 253, 249}

\* `[0x98, 0x58, 0x16, 0x8B, 0x00]`: the values left out of data_bytes
NotDataKeepsTxSync(v) == v \in {RX_START, TX_START, RX_SYNC, END_MARKER}
NotData(v) == v \in {RX_START, TX_START, RX_SYNC, TX_SYNC, END_MARKER}

\* `x['value'] in [0x16, 0x8B]`
IsSyncByte(v) == v \in {RX_SYNC, TX_SYNC}

\* `next((x for x in seq if ...), None)`: the index of the first sample whose
\* value is in vals, 0 for None
FirstWith(seq, vals) ==
    IF \E k \in 1..Len(seq) : seq[k].value \in vals
    THEN CHOOSE k \in 1..Len(seq) :
            /\ seq[k].value \in vals
            /\ \A m \in 1..(k - 1) : seq[m].value \notin vals
    ELSE 0

ValuesOf(seq) == [k \in 1..Len(seq) |-> seq[k].value]

\* analyze_sequence(seq): the returned dict, or the TypeError that
\* `start_marker['value']` / `end_marker['value']` raise on None
AnalyzeSequence(seq) ==
    LET s == FirstWith(seq, {RX_START, TX_START})
        e == FirstWith(seq, {END_MARKER})
    IN  IF s = 0 \/ e = 0
        THEN [raised |-> "TypeError"]
        ELSE [ data_bytes |-> SelectSeq(ValuesOf(seq), LAMBDA v : ~NotData(v)),
               sync_count |-> Len(SelectSeq(ValuesOf(seq), IsSyncByte)),
               sequence_length |-> Len(seq),
               start_time |-> seq[s].timestamp,
               end_time |-> seq[e].timestamp,
               duration |-> seq[e].timestamp - seq[s].timestamp ]

AnaOff == analysis = <<>>

\* analyze_file has read a capture and calls find_command_sequences(data)
AnaInit ==
    /\ segPc = "scan"
    /\ \E n \in 0..MaxFrameSamples : \E vs \in [1..n -> AnaBytes] : \E g \in 0..1 :
          data = SampleList(vs, g)
    /\ segI = 1
    /\ sequences = <<>>
    /\ current_sequence = <<>>
    /\ segJ = 0
    /\ valid_sequences = <<>>
    /\ analysis = <<>>

\* analyze_tx_rx_pair: `analyze_sequence(tx_sequences[0], ...)`
AnaSequence ==
    /\ segPc = "done"
    /\ valid_sequences # <<>>
    /\ analysis' = AnalyzeSequence(valid_sequences[1])
    /\ segPc' = "analyzed"
    /\ UNCHANGED <<data, segI, sequences, current_sequence, segJ, valid_sequences>>
    /\ UNCHANGED <<ckVars, decVars, linkVars, failVars, encVars, cmdVars>>

\* analyze_tx_rx_pair: `if tx_sequences and rx_sequences` is false
AnaNoSequence ==
    /\ segPc = "done"
    /\ valid_sequences = <<>>
    /\ segPc' = "analyzed"
    /\ UNCHANGED <<data, segI, sequences, current_sequence, segJ, valid_sequences>>
    /\ UNCHANGED anaVars
    /\ UNCHANGED <<ckVars, decVars, linkVars, failVars, encVars, cmdVars>>

-----------------------------------------------------------------------------
(* Bytes *)

\* Python's a ^ b on non-negative integers
RECURSIVE XorInt(_, _)
XorInt(a, b) ==
    IF a = 0 THEN b
    ELSE IF b = 0 THEN a
    ELSE (((a % 2) + (b % 2)) % 2) + 2 * XorInt(a \div 2, b \div 2)

\* Python's hex(b): "0x" and the lowercase digits, without padding
HexDigit(d) == <<"0", "1", "2", "3", "4", "5", "6", "7", "8", "9", "a", "b", "c", "d", "e", "f">>[d + 1]

RECURSIVE HexDigits(_)
HexDigits(b) == IF b < 16 THEN HexDigit(b) ELSE HexDigits(b \div 16) \o HexDigit(b % 16)

Hex(b) == "0x" \o HexDigits(b)

\* `[hex(b) for b in bs]`
HexList(bs) == [k \in 1..Len(bs) |-> Hex(bs[k])]

-----------------------------------------------------------------------------
(* OE10Controller._calculate_checksum *)

\* byte values of the checksum inputs: the bytes of the captured commands
\* (0x58, 0xFD, 0xF9), the two reserved folds 0x3C and 0x3E, and 0x00, 0x02,
\* 0xFF, which fold onto and off the reserved values
CkBytes == {0, 2, 60, 62, 88, 253, 249, 255}

\* `checksum ^= byte`
FoldByte(c, byte) == XorInt(c, byte)

\* the special cases and the return value
ChecksumResultSwapped(c) ==
    IF c = 60 THEN <<255, "1">>
    ELSE IF c = 62 THEN <<255, "0">>
    ELSE <<c, "G">>
ChecksumResult(c) ==
    IF c = 60 THEN <<255, "0">>
    ELSE IF c = 62 THEN <<255, "1">>
    ELSE <<c, "G">>

CkOff ==
    /\ ckPc = "off"
    /\ ckData = <<>>
    /\ ckI = 0
    /\ checksum = 0
    /\ ckResult = <<>>

CkInit ==
    /\ ckPc = "fold"
    /\ \E n \in 0..MaxPayload : ckData \in [1..n -> CkBytes]
    /\ ckI = 1
    /\ checksum = 0
    /\ ckResult = <<>>

\* one iteration of `for byte in data`
CkFold ==
    /\ ckPc = "fold"
    /\ ckI <= Len(ckData)
    /\ checksum' = FoldByte(checksum, ckData[ckI])
    /\ ckI' = ckI + 1
    /\ UNCHANGED <<ckPc, ckData, ckResult>>
    /\ UNCHANGED ckOthers

\* the loop is over: the special cases, then `return`
CkReturn ==
    /\ ckPc = "fold"
    /\ ckI > Len(ckData)
    /\ ckResult' = ChecksumResult(checksum)
    /\ ckPc' = "done"
    /\ UNCHANGED <<ckData, ckI, checksum>>
    /\ UNCHANGED ckOthers

-----------------------------------------------------------------------------
(* OE10Commander.decode_response *)

\* byte values of the responses: the inbound start marker and sync filler,
\* the end marker, a data byte of the captured response (0xF2) and the
\* outbound sync filler 0x8B, which is plain data in a response
DecBytes == {RX_START, RX_SYNC, END_MARKER, 242, TX_SYNC}

\* `not data or len(data) < 3`
TooShortOnlyEmpty(d) == Len(d) = 0
TooShort(d) == Len(d) = 0 \/ Len(d) < 3

\* `data[0] != self.RX_START or data[-1] != self.END_MARKER`
BadMarkers(d) == d[1] # RX_START \/ d[Len(d)] # END_MARKER

\* the step of `i` in the branch `if data[i] == self.RX_SYNC`: `i += 1` in the
\* branch and the `i += 1` that ends every iteration
SyncStep(k) == k + 1 + 1

\* `data[i] not in [self.RX_START, self.END_MARKER]`
IsPayloadByte(b) == b \notin {RX_START, END_MARKER}

\* the dict returned for a frame with good markers
DecodedDict(d, bs) ==
    [ start_marker |-> Hex(d[1]),
      end_marker |-> Hex(d[Len(d)]),
      data_bytes |-> HexList(bs),
      position_feedback |-> HexList(SelectSeq(bs, LAMBDA b : b = 62)),
      raw_bytes |-> HexList(d) ]

DecOff ==
    /\ decPc = "off"
    /\ rdata = <<>>
    /\ decI = 0
    /\ data_bytes = <<>>
    /\ decoded = <<>>

DecInit ==
    /\ decPc = "check"
    /\ \E n \in 0..MaxResponse : rdata \in [1..n -> DecBytes]
    /\ decI = 0
    /\ data_bytes = <<>>
    /\ decoded = <<>>

\* `return {'error': 'Response too short'}`
DecTooShort ==
    /\ decPc = "check"
    /\ TooShort(rdata)
    /\ decoded' = [error |-> "Response too short"]
    /\ decPc' = "done"
    /\ UNCHANGED <<rdata, decI, data_bytes>>
    /\ UNCHANGED decOthers

\* `return {'error': 'Invalid response markers'}`
DecBadMarkers ==
    /\ decPc = "check"
    /\ ~TooShort(rdata)
    /\ BadMarkers(rdata)
    /\ decoded' = [error |-> "Invalid response markers"]
    /\ decPc' = "done"
    /\ UNCHANGED <<rdata, decI, data_bytes>>
    /\ UNCHANGED decOthers

\* both checks pass: `data_bytes = []`, `i = 0`
DecBegin ==
    /\ decPc = "check"
    /\ ~TooShort(rdata)
    /\ ~BadMarkers(rdata)
    /\ data_bytes' = <<>>
    /\ decI' = 1
    /\ decPc' = "loop"
    /\ UNCHANGED <<rdata, decoded>>
    /\ UNCHANGED decOthers

\* one iteration of `while i < len(data)`, the branch of a sync byte
DecSync ==
    /\ decPc = "loop"
    /\ decI <= Len(rdata)
    /\ rdata[decI] = RX_SYNC
    /\ decI' = SyncStep(decI)
    /\ UNCHANGED <<decPc, rdata, data_bytes, decoded>>
    /\ UNCHANGED decOthers

\* one iteration, the branch `elif data[i] not in [RX_START, END_MARKER]`
DecData ==
    /\ decPc = "loop"
    /\ decI <= Len(rdata)
    /\ rdata[decI] # RX_SYNC
    /\ IsPayloadByte(rdata[decI])
    /\ data_bytes' = Append(data_bytes, rdata[decI])
    /\ decI' = decI + 1
    /\ UNCHANGED <<decPc, rdata, decoded>>
    /\ UNCHANGED decOthers

\* one iteration that takes neither branch (a start or end marker value)
DecMarker ==
    /\ decPc = "loop"
    /\ decI <= Len(rdata)
    /\ rdata[decI] # RX_SYNC
    /\ ~IsPayloadByte(rdata[decI])
    /\ decI' = decI + 1
    /\ UNCHANGED <<decPc, rdata, data_bytes, decoded>>
    /\ UNCHANGED decOthers

\* the loop is over: `return {...}`
DecReturn ==
    /\ decPc = "loop"
    /\ decI > Len(rdata)
    /\ decoded' = DecodedDict(rdata, data_bytes)
    /\ decPc' = "done"
    /\ UNCHANGED <<rdata, decI, data_bytes>>
    /\ UNCHANGED decOthers

\* OE10Encoder.generate_movement_command with a tilt angle and no pan angle
GenerateMovementCommand == <<152, 22>> \o <<242, 22>> \o <<226, 6, 0>>

\* the frame of a payload p under a sync pattern sp (sp[k]: a sync byte
\* precedes p[k]): start marker, interleaved payload, end marker
RECURSIVE Interleave(_, _, _)
Interleave(p, sync, sp) ==
    IF p = <<>> THEN <<>>
    ELSE (IF sp[1] THEN <<sync>> ELSE <<>>) \o <<p[1]>> \o Interleave(Tail(p), sync, Tail(sp))

BuildFrame(start, p, sync, sp) == <<start>> \o Interleave(p, sync, sp) \o <<END_MARKER>>

-----------------------------------------------------------------------------
(* OE10Controller (tilt_sequence.py).  Time is counted in ticks of 0.1 ms;  *)
(* it passes only in time.sleep, which may overshoot.                       *)

SettleDelay == 1000         \* time.sleep(0.1)
FirstByteDelay == 17        \* time.sleep(0.0017)
InterByteDelay == 10        \* time.sleep(0.001)
PreListenDelay == 150       \* time.sleep(0.015)
ListenTimeout == 400        \* 0.040
PollInterval == 1           \* time.sleep(0.0001)
CommandSpacing == 10000     \* 1.0
LoopSleep == 10             \* time.sleep(0.001)
MovePollDuration == 20000   \* run_polling_sequence(2.0)

\* init_cmd1, init_cmd2 of _initialize_device
InitCmd1 == <<88, 139, 253, 139, 249, 139, 125, 89, 139, 139, 217, 139, 113, 131, 0>>

InitCmd2 == <<88, 139, 253, 139, 249, 139, 89, 87, 139, 139, 243, 139, 113, 131, 0>>

\* _create_status_command()
StatusCommand == <<88, 139, 253, 139, 249, 139, 89, 87, 139, 139, 243, 139, 113, 131, 0>>

\* _create_tilt_command(angle), the same bytes for every angle
TiltCommand == <<88, 139, 253, 139, 243, 139, 95, 95, 139, 157, 143, 159, 139, 133, 139, 113,
                 131, 0>>

\* the bytes the device answers with, in this order: the captured response
SimulatedResponse == <<152, 22, 242, 22, 202, 22, 230, 22, 178, 174, 158, 254, 254, 62, 58, 62,
                       62, 62, 62, 22, 162, 22, 226, 6, 0>>

\* the durations main passes to run_polling_sequence (--duration)
Durations == {0, 1, MaxPollDuration}

\* `while time.time() - start_time < duration`
InDurationInclusive(t, st, d) == t - st <= d
InDuration(t, st, d) == t - st < d

\* `current_time - last_cmd_time >= 1.0 or last_cmd_time == 0`
DueAlways(t, last) == TRUE
Due(t, last) == t - last >= CommandSpacing \/ last = 0

\* the negation of `while time.time() - start_time < 0.040`
WaitExpiredOrGotBytes(t, st) == ~(t - st < ListenTimeout) \/ response # <<>>
WaitExpiredWindow(t, st) == ~(t - st < ListenTimeout - PreListenDelay)
WaitExpired(t, st) == ~(t - st < ListenTimeout)

\* `return bytes(response) if response else None`; <<>> stands for None
ReturnedResponseLastByte(r) == IF r = <<>> THEN <<>> ELSE <<r[Len(r)]>>
ReturnedResponse(r) == r

\* where run_polling_sequence continues when _send_command_with_timing
\* returns: `last_cmd_time = time.time()` and the call of _wait_for_response
PollAfterSendNoWait == "poll_waited"
PollAfterSend == "poll_sent"

\* by how much the next sleep may overshoot
Overshoots == 0..(IF slack > 0 THEN 1 ELSE 0)

\* time.sleep(d)
Sleep(d) == \E j \in Overshoots : now' = now + d + j /\ slack' = slack - j

pollVars == <<pstart, last_cmd_time, duration, prevTx, curTx>>

LinkOff ==
    /\ pc = "off"
    /\ stack = <<>>
    /\ now = 0
    /\ slack = 0
    /\ command = <<>>
    /\ txi = 0
    /\ sent = <<>>
    /\ inbuf = <<>>
    /\ rxCount = 0
    /\ wstart = 0
    /\ response = <<>>
    /\ retval = <<>>
    /\ pstart = 0
    /\ last_cmd_time = 0
    /\ duration = 0
    /\ moved = "none"
    /\ ev = "none"
    /\ txFrames = 0
    /\ listens = 0
    /\ prevTx = -1
    /\ curTx = -1

\* main() has parsed its arguments and calls OE10Controller(port, baudrate)
LinkInit ==
    /\ pc = "ctor"
    /\ stack = <<>>
    /\ now = 0
    /\ slack = MaxOvershoot
    /\ command = <<>>
    /\ txi = 0
    /\ sent = <<>>
    /\ inbuf = <<>>
    /\ rxCount = 0
    /\ wstart = 0
    /\ response = <<>>
    /\ retval = <<>>
    /\ pstart = 0
    /\ last_cmd_time = 0
    /\ duration = 0
    /\ moved = "none"
    /\ ev = "none"
    /\ txFrames = 0
    /\ listens = 0
    /\ prevTx = -1
    /\ curTx = -1

\* the device puts the next byte of its answer into the input buffer
DeviceByte ==
    /\ pc \notin {"off", "ctor", "closed"}
    /\ rxCount < MaxRx
    /\ inbuf' = Append(inbuf, [byte |-> SimulatedResponse[rxCount + 1], cycle |-> txFrames])
    /\ rxCount' = rxCount + 1
    /\ UNCHANGED <<pc, stack, now, slack, command, txi, sent, wstart, response, retval, moved,
                   ev, txFrames, listens>>
    /\ UNCHANGED pollVars
    /\ UNCHANGED linkOthers

\* _send_command_with_timing(cmd) is called and clears both buffers; ret is
\* where the caller continues
SendEntryNoReset(cmd, ret) ==
    /\ command' = cmd
    /\ txi' = 1
    /\ sent' = <<>>
    /\ UNCHANGED <<inbuf, rxCount>>
    /\ stack' = <<ret>> \o stack
    /\ pc' = "send_first"
    /\ txFrames' = txFrames + 1
    /\ ev' = "none"
    /\ UNCHANGED <<now, slack, wstart, response, retval, moved, listens>>
    /\ UNCHANGED linkOthers
SendEntry(cmd, ret) ==
    /\ command' = cmd
    /\ txi' = 1
    /\ sent' = <<>>
    /\ inbuf' = <<>>
    /\ rxCount' = 0
    /\ stack' = <<ret>> \o stack
    /\ pc' = "send_first"
    /\ txFrames' = txFrames + 1
    /\ ev' = "reset"
    /\ UNCHANGED <<now, slack, wstart, response, retval, moved, listens>>
    /\ UNCHANGED linkOthers

\* _wait_for_response() is called: start_time, the empty response and the
\* sleep before the first read
WaitEntryNoDelay(ret) ==
    /\ wstart' = now
    /\ response' = <<>>
    /\ stack' = <<ret>> \o stack
    /\ pc' = "wait_loop"
    /\ listens' = listens + 1
    /\ ev' = "none"
    /\ UNCHANGED <<now, slack, command, txi, sent, inbuf, rxCount, retval, moved, txFrames>>
    /\ UNCHANGED linkOthers
WaitEntry(ret) ==
    /\ wstart' = now
    /\ response' = <<>>
    /\ Sleep(PreListenDelay)
    /\ stack' = <<ret>> \o stack
    /\ pc' = "wait_loop"
    /\ listens' = listens + 1
    /\ ev' = "sleep"
    /\ UNCHANGED <<command, txi, sent, inbuf, rxCount, retval, moved, txFrames>>
    /\ UNCHANGED linkOthers

\* run_polling_sequence(d) is called: start_time and last_cmd_time
PollEntry(d, ret) ==
    /\ pstart' = now
    /\ last_cmd_time' = 0
    /\ duration' = d
    /\ prevTx' = -1
    /\ curTx' = -1
    /\ stack' = <<ret>> \o stack
    /\ pc' = "poll_loop"
    /\ ev' = "none"
    /\ UNCHANGED <<now, slack, command, txi, sent, inbuf, rxCount, wstart, response, retval,
                   moved, txFrames, listens>>
    /\ UNCHANGED linkOthers

\* a step of the caller that touches neither the transport nor the clock
Jump(to) ==
    /\ pc' = to
    /\ ev' = "none"
    /\ UNCHANGED <<stack, now, slack, command, txi, sent, inbuf, rxCount, wstart, response,
                   retval, txFrames, listens>>
    /\ UNCHANGED pollVars
    /\ UNCHANGED linkOthers

\* __init__: the port is opened, RTS/DTR set, sleep(0.1), both buffers cleared
Ctor ==
    /\ pc = "ctor"
    /\ Sleep(SettleDelay)
    /\ inbuf' = <<>>
    /\ rxCount' = 0
    /\ pc' = "init_send1"
    /\ ev' = "reset"
    /\ UNCHANGED <<stack, command, txi, sent, wstart, response, retval, moved, txFrames, listens>>
    /\ UNCHANGED pollVars
    /\ UNCHANGED linkOthers

\* _initialize_device: the four calls
InitSend1 == pc = "init_send1" /\ SendEntry(InitCmd1, "init_wait1") /\ UNCHANGED pollVars

InitWait1 == pc = "init_wait1" /\ WaitEntry("init_send2") /\ UNCHANGED pollVars

InitSend2 == pc = "init_send2" /\ SendEntry(InitCmd2, "init_wait2") /\ UNCHANGED pollVars

InitWait2 == pc = "init_wait2" /\ WaitEntry("main_op") /\ UNCHANGED pollVars

\* _send_command_with_timing: the first byte, flush, sleep(0.0017)
SendFirstByte ==
    /\ pc = "send_first"
    /\ sent' = Append(sent, command[1])
    /\ txi' = 2
    /\ Sleep(FirstByteDelay)
    /\ pc' = "send_rest"
    /\ ev' = "write"
    /\ UNCHANGED <<stack, command, inbuf, rxCount, wstart, response, retval, moved, txFrames,
                   listens>>
    /\ UNCHANGED pollVars
    /\ UNCHANGED linkOthers

\* one iteration of `for i, byte in enumerate(command[1:], 1)`
SendNextByteNoDelay ==
    /\ pc = "send_rest"
    /\ txi <= Len(command)
    /\ sent' = Append(sent, command[txi])
    /\ txi' = txi + 1
    /\ ev' = "write"
    /\ UNCHANGED <<pc, stack, now, slack, command, inbuf, rxCount, wstart, response, retval,
                   moved, txFrames, listens>>
    /\ UNCHANGED pollVars
    /\ UNCHANGED linkOthers
SendNextByte ==
    /\ pc = "send_rest"
    /\ txi <= Len(command)
    /\ sent' = Append(sent, command[txi])
    /\ txi' = txi + 1
    /\ Sleep(InterByteDelay)
    /\ ev' = "write"
    /\ UNCHANGED <<pc, stack, command, inbuf, rxCount, wstart, response, retval, moved,
                   txFrames, listens>>
    /\ UNCHANGED pollVars
    /\ UNCHANGED linkOthers

\* _send_command_with_timing returns
SendReturn ==
    /\ pc = "send_rest"
    /\ txi > Len(command)
    /\ pc' = Head(stack)
    /\ stack' = Tail(stack)
    /\ ev' = "none"
    /\ UNCHANGED <<now, slack, command, txi, sent, inbuf, rxCount, wstart, response, retval,
                   moved, txFrames, listens>>
    /\ UNCHANGED pollVars
    /\ UNCHANGED linkOthers

\* one iteration of the listen loop: `if self.serial.in_waiting`, read one
\* byte, sleep(0.0001)
WaitPoll ==
    /\ pc = "wait_loop"
    /\ ~WaitExpired(now, wstart)
    /\ IF Len(inbuf) > 0
       THEN /\ response' = Append(response, Head(inbuf).byte)
            /\ inbuf' = Tail(inbuf)
            /\ ev' = "read"
       ELSE /\ UNCHANGED <<response, inbuf>>
            /\ ev' = "in_waiting"
    /\ Sleep(PollInterval)
    /\ UNCHANGED <<pc, stack, command, txi, sent, rxCount, wstart, retval, moved, txFrames,
                   listens>>
    /\ UNCHANGED pollVars
    /\ UNCHANGED linkOthers

\* the listen loop is over: _wait_for_response returns
WaitReturn ==
    /\ pc = "wait_loop"
    /\ WaitExpired(now, wstart)
    /\ retval' = ReturnedResponse(response)
    /\ pc' = Head(stack)
    /\ stack' = Tail(stack)
    /\ ev' = "wait_ret"
    /\ UNCHANGED <<now, slack, command, txi, sent, inbuf, rxCount, wstart, response, moved,
                   txFrames, listens>>
    /\ UNCHANGED pollVars
    /\ UNCHANGED linkOthers

\* run_polling_sequence, an iteration that sends the status command
PollDispatch ==
    /\ pc = "poll_loop"
    /\ InDuration(now, pstart, duration)
    /\ Due(now, last_cmd_time)
    /\ SendEntry(StatusCommand, PollAfterSend)
    /\ prevTx' = curTx
    /\ curTx' = now
    /\ UNCHANGED <<pstart, last_cmd_time, duration>>

\* `last_cmd_time = time.time()` and the call of _wait_for_response
PollSent ==
    /\ pc = "poll_sent"
    /\ last_cmd_time' = now
    /\ WaitEntry("poll_waited")
    /\ UNCHANGED <<pstart, duration, prevTx, curTx>>

\* the response is back: the `time.sleep(0.001)` that ends the iteration
PollWaitedStopsOnTimeout ==
    /\ pc = "poll_waited"
    /\ Sleep(LoopSleep)
    /\ IF retval = <<>>
       THEN pc' = Head(stack) /\ stack' = Tail(stack)
       ELSE pc' = "poll_loop" /\ stack' = stack
    /\ ev' = "sleep"
    /\ UNCHANGED <<command, txi, sent, inbuf, rxCount, wstart, response, retval, moved,
                   txFrames, listens>>
    /\ UNCHANGED pollVars
    /\ UNCHANGED linkOthers
PollWaited ==
    /\ pc = "poll_waited"
    /\ Sleep(LoopSleep)
    /\ pc' = "poll_loop"
    /\ ev' = "sleep"
    /\ UNCHANGED <<stack, command, txi, sent, inbuf, rxCount, wstart, response, retval, moved,
                   txFrames, listens>>
    /\ UNCHANGED pollVars
    /\ UNCHANGED linkOthers

\* an iteration that sends nothing: only the `time.sleep(0.001)`
PollIdle ==
    /\ pc = "poll_loop"
    /\ InDuration(now, pstart, duration)
    /\ ~Due(now, last_cmd_time)
    /\ Sleep(LoopSleep)
    /\ ev' = "sleep"
    /\ UNCHANGED <<pc, stack, command, txi, sent, inbuf, rxCount, wstart, response, retval,
                   moved, txFrames, listens>>
    /\ UNCHANGED pollVars
    /\ UNCHANGED linkOthers

\* the duration is over: run_polling_sequence returns
PollExit ==
    /\ pc = "poll_loop"
    /\ ~InDuration(now, pstart, duration)
    /\ pc' = Head(stack)
    /\ stack' = Tail(stack)
    /\ ev' = "none"
    /\ UNCHANGED <<now, slack, command, txi, sent, inbuf, rxCount, wstart, response, retval,
                   moved, txFrames, listens>>
    /\ UNCHANGED pollVars
    /\ UNCHANGED linkOthers

\* main with --poll: controller.run_polling_sequence(args.duration)
MainPoll ==
    /\ pc = "main_op"
    /\ \E d \in Durations : PollEntry(d, "main_close")

\* main without --poll: controller.move_to_angle(10), whose first step is
\* run_polling_sequence(2.0)
MainMove ==
    /\ pc = "main_op"
    /\ PollEntry(MovePollDuration, "move_tilt")

\* move_to_angle: the tilt command is created and sent
MoveTilt == pc = "move_tilt" /\ SendEntry(TiltCommand, "move_wait") /\ UNCHANGED pollVars

\* move_to_angle: `response = self._wait_for_response()`
MoveWait == pc = "move_wait" /\ WaitEntry("move_resp") /\ UNCHANGED pollVars

\* move_to_angle: `if not response: return False`
MoveNoResponse ==
    /\ pc = "move_resp"
    /\ retval = <<>>
    /\ moved' = "False"
    /\ Jump("main_close")

\* move_to_angle: otherwise run_polling_sequence(2.0) once more
MoveContinueAlways ==
    /\ pc = "move_resp"
    /\ PollEntry(MovePollDuration, "move_done")
MoveContinue ==
    /\ pc = "move_resp"
    /\ retval # <<>>
    /\ PollEntry(MovePollDuration, "move_done")

\* move_to_angle: `return True`
MoveDone ==
    /\ pc = "move_done"
    /\ moved' = "True"
    /\ Jump("main_close")

\* main: controller.close()
MainClose ==
    /\ pc = "main_close"
    /\ UNCHANGED moved
    /\ Jump("closed")

-----------------------------------------------------------------------------
(* The builders of command frames: OE10Encoder.generate_movement_command,   *)
(* OE10Commander.generate_tilt_command and OE10Controller's commands        *)

\* OE10Encoder's command structure constants
START_BYTE == 152    \* 0x98
SYNC_BYTE == 22      \* 0x16
END_BYTE == 0        \* 0x00

\* the angles the builders are called with, in degrees
Angles == {-45, -10, 0, 10, 45}

\* an optional angle: <<>> for None, <<a>> for the number a
OptAngles == {<<>>} \cup {<<a>> : a \in Angles}

\* OE10Commander.generate_tilt_command(angle), the same bytes for every angle
CommanderTiltCommand ==
    <<TX_START, TX_SYNC, 253, TX_SYNC, 249, TX_SYNC, 89, 87, TX_SYNC, TX_SYNC, 243, TX_SYNC, 113,
      131, END_MARKER>>

EncOff ==
    /\ encPc = "off"
    /\ tilt_angle = <<>>
    /\ pan_angle = <<>>
    /\ angle = <<>>
    /\ command_bytes = <<>>

\* a program that is about to build a command frame
EncInit ==
    /\ encPc = "idle"
    /\ tilt_angle = <<>>
    /\ pan_angle = <<>>
    /\ angle = <<>>
    /\ command_bytes = <<>>

\* generate_movement_command(tilt_angle, pan_angle) is called: the start
\* sequence
EncStart ==
    /\ encPc = "idle"
    /\ tilt_angle' \in OptAngles
    /\ pan_angle' \in OptAngles
    /\ command_bytes' = <<START_BYTE, SYNC_BYTE>>
    /\ encPc' = "tilt"
    /\ UNCHANGED angle
    /\ UNCHANGED encOthers

\* `if tilt_angle is not None: command_bytes.extend([0xF2, self.SYNC_BYTE])`
EncTilt ==
    /\ encPc = "tilt"
    /\ command_bytes' = IF tilt_angle # <<>>
                        THEN command_bytes \o <<242, SYNC_BYTE>>
                        ELSE command_bytes
    /\ encPc' = "pan"
    /\ UNCHANGED <<tilt_angle, pan_angle, angle>>
    /\ UNCHANGED encOthers

\* `if pan_angle is not None: pass`
EncPan ==
    /\ encPc = "pan"
    /\ encPc' = "end"
    /\ UNCHANGED <<tilt_angle, pan_angle, angle, command_bytes>>
    /\ UNCHANGED encOthers

\* the end sequence and `return bytes(command_bytes)`
EncEnd ==
    /\ encPc = "end"
    /\ command_bytes' = command_bytes \o <<226, 6, END_BYTE>>
    /\ encPc' = "done"
    /\ UNCHANGED <<tilt_angle, pan_angle, angle>>
    /\ UNCHANGED encOthers

\* a builder that returns a fixed frame
Builds(frame) ==
    /\ encPc = "idle"
    /\ command_bytes' = frame
    /\ encPc' = "done"
    /\ UNCHANGED <<tilt_angle, pan_angle>>
    /\ UNCHANGED encOthers

\* OE10Commander.generate_tilt_command(angle)
BuildCommanderTilt == angle' \in OptAngles \ {<<>>} /\ Builds(CommanderTiltCommand)

\* OE10Controller._create_tilt_command(angle)
BuildTilt == angle' \in OptAngles \ {<<>>} /\ Builds(TiltCommand)

\* OE10Controller._create_status_command()
BuildStatus == UNCHANGED angle /\ Builds(StatusCommand)

\* OE10Controller._initialize_device: init_cmd1, init_cmd2
BuildInit1 == UNCHANGED angle /\ Builds(InitCmd1)

BuildInit2 == UNCHANGED angle /\ Builds(InitCmd2)

-----------------------------------------------------------------------------
(* Transport failures: a call on self.serial raises (serial.SerialException) *)

\* no transport call raises
FailOff == raised = FALSE

\* where the transport may fail: at the first call of a transmission
\* (reset_input_buffer / the write of the first byte) and at the first query
\* of a listen window (in_waiting)
FailurePoint == pc = "send_first" \/ (pc = "wait_loop" /\ ev = "sleep")

\* the exception leaves _send_command_with_timing / _wait_for_response and
\* their caller's frame; what the exception handler that catches it does
\* follows in each action
Unwinds ==
    /\ FailurePoint
    /\ ~raised
    /\ raised' = TRUE
    /\ ev' = "none"
    /\ UNCHANGED <<now, slack, command, txi, sent, inbuf, rxCount, wstart, response, retval,
                   txFrames, listens>>
    /\ UNCHANGED pollVars
    /\ UNCHANGED <<segVars, anaVars, ckVars, decVars, encVars, cmdVars>>

\* inside run_polling_sequence: `except Exception as e: print(...)`, and the
\* function returns to its caller like after a completed sequence
PollFails ==
    /\ Unwinds
    /\ Head(stack) \in {"poll_sent", "poll_waited"}
    /\ pc' = stack[2]
    /\ stack' = Tail(Tail(stack))
    /\ UNCHANGED moved

\* in move_to_angle's own send or wait: `except Exception as e: ... return False`
MoveFails ==
    /\ Unwinds
    /\ Head(stack) \in {"move_wait", "move_resp"}
    /\ moved' = "False"
    /\ pc' = "main_close"
    /\ stack' = <<>>

\* in _initialize_device: nothing catches the exception, the constructor and
\* main end with it
InitFails ==
    /\ Unwinds
    /\ Head(stack) \in {"init_wait1", "init_send2", "init_wait2", "main_op"}
    /\ pc' = "crashed"
    /\ stack' = <<>>
    /\ UNCHANGED moved

-----------------------------------------------------------------------------
(* OE10Commander's session (oe10_commander.py): connect, disconnect and     *)
(* send_tilt_command, called in any order by a single caller.  Each Serial  *)
(* object the session has created is an entry of `ports`.                   *)

\* byte values of the device's answers
ReplyBytes == {RX_START, RX_SYNC, END_MARKER, 242}

\* a Serial object as serial.Serial(...) returns it: open, nothing written
\* or read yet
NewPort == [is_open |-> TRUE, writes |-> 0, last_write |-> <<>>, reads |-> 0]

\* `{'error': 'Serial port not open'}`
NotOpenError == [error |-> "Serial port not open"]

\* `self.serial and self.serial.is_open`
SessionOpenEverConnected == serial # <<>>
SessionOpen == serial # <<>> /\ ports[serial[1]].is_open

CmdOff ==
    /\ cmdPc = "off"
    /\ serial = <<>>
    /\ ports = <<>>
    /\ calls = 0
    /\ lastCall = "none"
    /\ cmdResult = <<>>

\* OE10Commander(port, baudrate): `self.serial = None`
CmdInit ==
    /\ cmdPc = "idle"
    /\ serial = <<>>
    /\ ports = <<>>
    /\ calls = 0
    /\ lastCall = "__init__"
    /\ cmdResult = <<>>

\* connect(): serial.Serial(...) opens the port and self.serial is bound to
\* the new object.  The object bound before, if any, is no longer referenced:
\* whether it has been finalized (and thereby closed) is up to the runtime.
CmdConnect ==
    /\ cmdPc = "idle"
    /\ calls < MaxCalls
    /\ \E oldOpen \in BOOLEAN :
          /\ serial = <<>> => oldOpen
          /\ serial # <<>> => (oldOpen => ports[serial[1]].is_open)
          /\ ports' = Append(IF serial = <<>> THEN ports
                             ELSE [ports EXCEPT ![serial[1]].is_open = oldOpen],
                             NewPort)
    /\ serial' = <<Len(ports) + 1>>
    /\ calls' = calls + 1
    /\ lastCall' = "connect"
    /\ cmdResult' = <<>>
    /\ UNCHANGED cmdPc
    /\ UNCHANGED decVars
    /\ UNCHANGED cmdOthers

\* connect(): serial.Serial(...) raises (no such port, port busy) and
\* self.serial keeps its value
CmdConnectFails ==
    /\ cmdPc = "idle"
    /\ calls < MaxCalls
    /\ calls' = calls + 1
    /\ lastCall' = "connect"
    /\ cmdResult' = [exception |-> "SerialException"]
    /\ UNCHANGED <<cmdPc, serial, ports>>
    /\ UNCHANGED decVars
    /\ UNCHANGED cmdOthers

\* disconnect() on an open session: self.serial.close()
CmdDisconnect ==
    /\ cmdPc = "idle"
    /\ calls < MaxCalls
    /\ SessionOpen
    /\ ports' = [ports EXCEPT ![serial[1]].is_open = FALSE]
    /\ calls' = calls + 1
    /\ lastCall' = "disconnect"
    /\ cmdResult' = <<>>
    /\ UNCHANGED <<cmdPc, serial>>
    /\ UNCHANGED decVars
    /\ UNCHANGED cmdOthers

\* disconnect() otherwise: the `if` fails and nothing is done
CmdDisconnectIdle ==
    /\ cmdPc = "idle"
    /\ calls < MaxCalls
    /\ ~SessionOpen
    /\ calls' = calls + 1
    /\ lastCall' = "disconnect"
    /\ cmdResult' = <<>>
    /\ UNCHANGED <<cmdPc, serial, ports>>
    /\ UNCHANGED decVars
    /\ UNCHANGED cmdOthers

\* send_tilt_command(angle) without an open session:
\* `return {'error': 'Serial port not open'}`
CmdSendNotOpen ==
    /\ cmdPc = "idle"
    /\ calls < MaxCalls
    /\ ~SessionOpen
    /\ calls' = calls + 1
    /\ lastCall' = "send_tilt_command"
    /\ cmdResult' = NotOpenError
    /\ UNCHANGED <<cmdPc, serial, ports>>
    /\ UNCHANGED decVars
    /\ UNCHANGED cmdOthers

\* send_tilt_command(angle) on an open session: the command is written,
\* sleep(0.025), read(25) yields what the device answered within the read
\* timeout, and decode_response is called with it
CmdSend ==
    /\ cmdPc = "idle"
    /\ calls < MaxCalls
    /\ SessionOpen
    /\ ports' = [ports EXCEPT ![serial[1]].writes = @ + 1,
                              ![serial[1]].last_write = CommanderTiltCommand,
                              ![serial[1]].reads = @ + 1]
    /\ \E n \in 0..MaxReply : rdata' \in [1..n -> ReplyBytes]
    /\ decPc' = "check"
    /\ decI' = 0
    /\ data_bytes' = <<>>
    /\ decoded' = <<>>
    /\ cmdPc' = "decoding"
    /\ calls' = calls + 1
    /\ lastCall' = "send_tilt_command"
    /\ UNCHANGED <<serial, cmdResult>>
    /\ UNCHANGED cmdOthers

\* `return self.decode_response(response)`
CmdSendReturn ==
    /\ cmdPc = "decoding"
    /\ decPc = "done"
    /\ cmdResult' = decoded
    /\ cmdPc' = "idle"
    /\ decPc' = "off"
    /\ rdata' = <<>>
    /\ decI' = 0
    /\ data_bytes' = <<>>
    /\ decoded' = <<>>
    /\ UNCHANGED <<serial, ports, calls, lastCall>>
    /\ UNCHANGED cmdOthers

-----------------------------------------------------------------------------
(* Specifications *)

\* find_command_sequences on every sample list of the model
InitSeg == SegInit /\ AnaOff /\ CkOff /\ DecOff /\ LinkOff /\ FailOff /\ EncOff /\ CmdOff

NextSeg ==
    \/ SegStart
    \/ SegAppend
    \/ SegSkip
    \/ SegFlush
    \/ SegFilter
    \/ SegReturn

SpecSeg == InitSeg /\ [][NextSeg]_vars

\* analyze_tx_rx_pair on one capture: find_command_sequences, then
\* analyze_sequence on the first frame found
InitAna == AnaInit /\ CkOff /\ DecOff /\ LinkOff /\ FailOff /\ EncOff /\ CmdOff

NextAna ==
    \/ SegStart
    \/ SegAppend
    \/ SegSkip
    \/ SegFlush
    \/ SegFilter
    \/ SegReturn
    \/ AnaSequence
    \/ AnaNoSequence

SpecAna == InitAna /\ [][NextAna]_vars

\* _calculate_checksum on every byte string of the model
InitCk == CkInit /\ SegOff /\ AnaOff /\ DecOff /\ LinkOff /\ FailOff /\ EncOff /\ CmdOff

NextCk ==
    \/ CkFold
    \/ CkReturn

SpecCk == InitCk /\ [][NextCk]_vars

\* decode_response on every byte string of the model
InitDec == DecInit /\ SegOff /\ AnaOff /\ CkOff /\ LinkOff /\ FailOff /\ EncOff /\ CmdOff

NextDec ==
    \/ DecTooShort
    \/ DecBadMarkers
    \/ DecBegin
    \/ DecSync
    \/ DecData
    \/ DecMarker
    \/ DecReturn

SpecDec == InitDec /\ [][NextDec]_vars

\* one run of main on OE10Controller: construction and initialisation, then
\* either a polling sequence or move_to_angle, against a device that answers
\* when it likes
InitLink == LinkInit /\ SegOff /\ AnaOff /\ CkOff /\ DecOff /\ FailOff /\ EncOff /\ CmdOff

NextLink ==
    \/ DeviceByte
    \/ Ctor
    \/ InitSend1
    \/ InitWait1
    \/ InitSend2
    \/ InitWait2
    \/ SendFirstByte
    \/ SendNextByte
    \/ SendReturn
    \/ WaitPoll
    \/ WaitReturn
    \/ PollDispatch
    \/ PollSent
    \/ PollWaited
    \/ PollIdle
    \/ PollExit
    \/ MainPoll
    \/ MainMove
    \/ MoveTilt
    \/ MoveWait
    \/ MoveNoResponse
    \/ MoveContinue
    \/ MoveDone
    \/ MainClose

SpecLink == InitLink /\ [][NextLink]_vars

\* the steps of the controller's thread while OE10Controller(port, baudrate)
\* is constructed: __init__ and the two send/receive cycles of
\* _initialize_device
NextCtorThread ==
    \/ Ctor
    \/ InitSend1
    \/ InitWait1
    \/ InitSend2
    \/ InitWait2
    \/ SendFirstByte
    \/ SendNextByte
    \/ SendReturn
    \/ WaitPoll
    \/ WaitReturn

\* the construction of the controller against a device that answers when it
\* likes or not at all; the controller's thread keeps running (every sleep
\* returns), the device is under no obligation
NextCtor ==
    \/ DeviceByte
    \/ Ctor
    \/ InitSend1
    \/ InitWait1
    \/ InitSend2
    \/ InitWait2
    \/ SendFirstByte
    \/ SendNextByte
    \/ SendReturn
    \/ WaitPoll
    \/ WaitReturn

SpecCtorFair == InitLink /\ [][NextCtor]_vars /\ WF_vars(NextCtorThread)

\* one command frame built by one of the program's builders
InitEnc == EncInit /\ SegOff /\ AnaOff /\ CkOff /\ DecOff /\ LinkOff /\ FailOff /\ CmdOff

NextEnc ==
    \/ EncStart
    \/ EncTilt
    \/ EncPan
    \/ EncEnd
    \/ BuildCommanderTilt
    \/ BuildTilt
    \/ BuildStatus
    \/ BuildInit1
    \/ BuildInit2

SpecEnc == InitEnc /\ [][NextEnc]_vars

\* a caller that makes up to MaxCalls calls on one OE10Commander, in any order
InitCmd == CmdInit /\ SegOff /\ AnaOff /\ CkOff /\ DecOff /\ LinkOff /\ FailOff /\ EncOff

NextCmd ==
    \/ CmdConnect
    \/ CmdConnectFails
    \/ CmdDisconnect
    \/ CmdDisconnectIdle
    \/ CmdSendNotOpen
    \/ CmdSend
    \/ DecTooShort
    \/ DecBadMarkers
    \/ DecBegin
    \/ DecSync
    \/ DecData
    \/ DecMarker
    \/ DecReturn
    \/ CmdSendReturn

SpecCmd == InitCmd /\ [][NextCmd]_vars

\* the same run of main over a transport of which one call may raise
NextFail ==
    \/ DeviceByte
    \/ Ctor
    \/ InitSend1
    \/ InitWait1
    \/ InitSend2
    \/ InitWait2
    \/ SendFirstByte
    \/ SendNextByte
    \/ SendReturn
    \/ WaitPoll
    \/ WaitReturn
    \/ PollDispatch
    \/ PollSent
    \/ PollWaited
    \/ PollIdle
    \/ PollExit
    \/ MainPoll
    \/ MainMove
    \/ MoveTilt
    \/ MoveWait
    \/ MoveNoResponse
    \/ MoveContinue
    \/ MoveDone
    \/ MainClose
    \/ PollFails
    \/ MoveFails
    \/ InitFails

SpecFail == InitLink /\ [][NextFail]_vars

-----------------------------------------------------------------------------
(* Properties of find_command_sequences (checked under SpecSeg) *)

\* the positions i < j of data that delimit a closed frame: a start marker at
\* i, the first 0x00 after it at j, and no start marker in between
ClosedAt(i, j) ==
    /\ 1 <= i /\ i < j /\ j <= Len(data)
    /\ data[i].value \in {152, 88}
    /\ data[j].value = 0
    /\ \A k \in (i + 1)..(j - 1) : data[k].value \notin {152, 88, 0}

ClosedFrames ==
    { SubSeq(data, p[1], p[2]) :
        p \in { q \in (1..Len(data)) \X (1..Len(data)) : ClosedAt(q[1], q[2]) } }

Emitted == { valid_sequences[m] : m \in 1..Len(valid_sequences) }

\* C1: every frame find_command_sequences returns (and every frame it has
\* placed in its result so far) starts with a start marker 0x98 or 0x58, ends
\* with 0x00 and has at least two samples.
C1_FrameValidity ==
    \A m \in 1..Len(valid_sequences) :
        LET f == valid_sequences[m]
        IN  /\ Len(f) >= 2
            /\ f[1].value \in {152, 88}
            /\ f[Len(f)].value = 0

\* a returned frame that carries data between its markers
C1_Witness ==
    /\ segPc = "done"
    /\ \E m \in 1..Len(valid_sequences) :
          /\ Len(valid_sequences[m]) >= 3
          /\ valid_sequences[m][1].value = 88

\* C7: the result holds no unterminated frame and loses no terminated one: the
\* frames returned are exactly the slices of the input that run from a start
\* marker to the first 0x00 after it with no start marker in between; a frame
\* still open at the next start marker or at the end of the input is absent.
C7_NoUnterminatedFrame ==
    segPc = "done" => Emitted = ClosedFrames

\* an input with a closed frame, then a frame cut off by a new start marker,
\* then a frame cut off by the end of the input
C7_Witness ==
    /\ segPc = "done"
    /\ Len(data) >= 4
    /\ ClosedAt(1, 2)
    /\ data[3].value \in {152, 88}
    /\ data[4].value \in {152, 88}
    /\ \A k \in 4..Len(data) : data[k].value # 0
    /\ valid_sequences = <<SubSeq(data, 1, 2)>>

\* the input is a concatenation of valid frames: a start marker opens the
\* input and follows every 0x00, no other sample is a start marker, and the
\* last sample is 0x00
IsFrameConcat ==
    /\ Len(data) >= 1
    /\ data[Len(data)].value = 0
    /\ \A k \in 1..Len(data) :
          (data[k].value \in {152, 88}) <=> (k = 1 \/ data[k - 1].value = 0)

NumEnds == Cardinality({k \in 1..Len(data) : data[k].value = 0})

\* the position of the m-th 0x00 of the input
EndPos(m) ==
    CHOOSE j \in 1..Len(data) :
        /\ data[j].value = 0
        /\ Cardinality({k \in 1..j : data[k].value = 0}) = m

ConcatFrames ==
    [m \in 1..NumEnds |-> SubSeq(data, IF m = 1 THEN 1 ELSE EndPos(m - 1) + 1, EndPos(m))]

\* C9: for an input that is a concatenation of k >= 1 valid frames (with or
\* without timestamp gaps between them) the result is exactly those k frames,
\* each identical to its input samples, in the input's order.
C9_ConcatRoundTrip ==
    (segPc = "done" /\ IsFrameConcat) => valid_sequences = ConcatFrames

\* an outbound frame and then an inbound frame, separated by a timestamp gap
C9_Witness ==
    /\ segPc = "done"
    /\ IsFrameConcat
    /\ NumEnds = 2
    /\ data[1].value = 88
    /\ data[EndPos(1) + 1].value = 152
    /\ data[EndPos(1) + 1].timestamp > data[EndPos(1)].timestamp + 1
    /\ Len(valid_sequences) = 2

NoStartMarker == \A k \in 1..Len(data) : data[k].value \notin {152, 88}

\* C10: for an input without any start marker no sample is ever placed in a
\* frame: at every step current_sequence and sequences are empty, and the
\* result is the empty list.
C10_NoStartNoFrames ==
    NoStartMarker =>
        /\ current_sequence = <<>>
        /\ sequences = <<>>
        /\ valid_sequences = <<>>

\* the single sample 0x00, fully processed
C10_Witness ==
    /\ segPc = "done"
    /\ Len(data) = 1
    /\ data[1].value = 0
    /\ valid_sequences = <<>>

-----------------------------------------------------------------------------
(* Properties of analyze_sequence on the frames of a capture (checked under *)
(* SpecAna)                                                                 *)

\* the capture is one outbound stream: 0x58, then sync bytes 0x8B and data
\* bytes, then 0x00
IsOutboundStream ==
    /\ Len(data) >= 2
    /\ data[1].value = 88
    /\ data[Len(data)].value = 0
    /\ \A k \in 2..(Len(data) - 1) : data[k].value \notin {88, 152, 22, 0}

\* C11: for an outbound stream (0x58, any mix of 0x8B and data bytes, 0x00)
\* find_command_sequences returns exactly one frame, made of all the samples,
\* and analyze_sequence reports as data bytes the stream's bytes between the
\* markers, in order, without the 0x8B bytes; [0x58, 0x8B, 0xFD, 0x00] gives
\* one frame of length 4 with data bytes [0xFD].
C11_OutboundAnalysis ==
    (segPc = "analyzed" /\ IsOutboundStream) =>
        /\ valid_sequences = <<data>>
        /\ "data_bytes" \in DOMAIN analysis
        /\ analysis.data_bytes =
              SelectSeq(SubSeq(ValuesOf(data), 2, Len(data) - 1), LAMBDA v : v # 139)
        /\ analysis.sequence_length = Len(data)
        /\ (ValuesOf(data) = <<88, 139, 253, 0>> =>
              analysis.data_bytes = <<253>> /\ analysis.sequence_length = 4)

\* scenario A, analysed
C11_Witness ==
    /\ segPc = "analyzed"
    /\ ValuesOf(data) = <<88, 139, 253, 0>>
    /\ Len(valid_sequences) = 1
    /\ analysis.data_bytes = <<253>>

\* the sync filler of a frame's direction: 0x8B outbound, 0x16 inbound
FillerOf(f) == IF f[1].value = 88 THEN 139 ELSE 22

\* C12: the data bytes analyze_sequence extracts from a frame are the bytes
\* between its markers without the sync filler of the frame's own direction:
\* 0x8B is dropped from an outbound frame (start 0x58) and 0x16 is kept as
\* data; 0x16 is dropped from an inbound frame (start 0x98) and 0x8B is kept.
C12_DirectionalFiller ==
    (segPc = "analyzed" /\ valid_sequences # <<>>) =>
        LET f == valid_sequences[1]
        IN  /\ "data_bytes" \in DOMAIN analysis
            /\ analysis.data_bytes =
                  SelectSeq(SubSeq(ValuesOf(f), 2, Len(f) - 1), LAMBDA v : v # FillerOf(f))

-----------------------------------------------------------------------------
(* Properties of _calculate_checksum (checked under SpecCk) *)

\* the XOR fold of a byte string, bit by bit: bit k of the fold is the parity
\* of the number of bytes with bit k set
RefBit(b, k) == (b \div (2 ^ k)) % 2

RefParity(p, k) == Cardinality({m \in 1..Len(p) : RefBit(p[m], k) = 1}) % 2

RECURSIVE RefFoldFrom(_, _)
RefFoldFrom(p, k) == IF k > 7 THEN 0 ELSE (2 ^ k) * RefParity(p, k) + RefFoldFrom(p, k + 1)

RefChecksum(p) ==
    LET fold == RefFoldFrom(p, 0)
    IN  IF fold = 60 THEN <<255, "0">>
        ELSE IF fold = 62 THEN <<255, "1">>
        ELSE <<fold, "G">>

\* C3: _calculate_checksum returns the reference checksum of its argument: the
\* XOR fold from 0x00, replaced by (0xFF, '0') when the fold is 0x3C and by
\* (0xFF, '1') when it is 0x3E, and tagged 'G' otherwise; the empty string
\* gives (0x00, 'G') and [0x58, 0xFD, 0xF9] gives (0x5C, 'G').
C3_ChecksumReference ==
    ckPc = "done" =>
        /\ ckResult = RefChecksum(ckData)
        /\ (ckData = <<>> => ckResult = <<0, "G">>)
        /\ (ckData = <<88, 253, 249>> => ckResult = <<92, "G">>)

\* a fold that lands on 0x3C: the substitution for '0' has fired
C3_Witness ==
    /\ ckPc = "done"
    /\ ckData = <<62, 2>>
    /\ ckResult = <<255, "0">>

-----------------------------------------------------------------------------
(* Properties of decode_response (checked under SpecDec) *)

\* the response is a frame of the inbound direction
IsInboundFrame == Len(rdata) >= 3 /\ rdata[1] = 152 /\ rdata[Len(rdata)] = 0

\* C2: for an inbound frame the payload ('data_bytes') holds every byte of the
\* frame that is neither the sync filler 0x16 nor a start or end marker, once
\* each and in frame order; a data byte right after a sync byte is among them.
C2_PayloadExtraction ==
    (decPc = "done" /\ IsInboundFrame) =>
        /\ "data_bytes" \in DOMAIN decoded
        /\ decoded.data_bytes = HexList(SelectSeq(rdata, LAMBDA b : b \notin {22, 152, 0}))

\* every byte string over `alphabet` up to length n
ByteStrings(alphabet, n) == UNION { [1..m -> alphabet] : m \in 0..n }

\* the payloads and sync patterns whose frames fit the responses of the model
Payloads == ByteStrings({242, 139}, MaxResponse - 2) \ {<<>>}

SyncPatterns(p) == [1..Len(p) -> BOOLEAN]

\* C8: an inbound frame built from a (non-empty) payload P and a sync pattern
\* S, 0x98 ++ interleave(P, 0x16, S) ++ 0x00, decodes to exactly P.
C8_RoundTrip ==
    \A p \in Payloads : \A sp \in SyncPatterns(p) :
        (decPc = "done" /\ rdata = BuildFrame(152, p, 22, sp)) =>
            /\ "data_bytes" \in DOMAIN decoded
            /\ decoded.data_bytes = HexList(p)

\* the input for which decode_response is to report an error
IsMalformed == Len(rdata) < 3 \/ rdata[1] # 152 \/ rdata[Len(rdata)] # 0

\* C18: decode_response returns a value for every byte string, the empty one
\* and those of length 1 and 2 included, and never raises: until it returns it
\* always has a next step and reads only bytes inside its argument; it returns
\* an error value exactly when the input is shorter than 3 bytes, does not
\* start with 0x98 or does not end with 0x00, and a decoded result without
\* 'error' key otherwise.
C18_AlwaysReturnsValue ==
    /\ decPc \in {"check", "loop"} => ENABLED NextDec
    /\ decPc = "loop" => (decI >= 1 /\ decI <= Len(rdata) + 2)
    /\ decPc = "done" =>
          /\ DOMAIN decoded # {}
          /\ ("error" \in DOMAIN decoded) <=> IsMalformed
          /\ ("error" \notin DOMAIN decoded) => ("data_bytes" \in DOMAIN decoded)

\* a two-byte input with good markers is reported as an error
C18_Witness ==
    /\ decPc = "done"
    /\ rdata = <<152, 0>>
    /\ "error" \in DOMAIN decoded

-----------------------------------------------------------------------------
(* Properties of the link (checked under SpecLink) *)

\* a frame is being transmitted: inside _send_command_with_timing
Transmitting == pc \in {"send_first", "send_rest"}

\* a listen window is open: inside _wait_for_response
Listening == pc = "wait_loop"

\* C4: the link is half-duplex and alternates: a frame transmission starts
\* only when every earlier one has had its listen window, a listen window
\* starts only after a transmission that has had none yet, bytes are written
\* only while a frame is being transmitted, the transport is queried or read
\* only inside a listen window, and at the end every transmission has had its
\* listen window.
C4_HalfDuplex ==
    /\ txFrames - listens \in {0, 1}
    /\ Transmitting => txFrames = listens + 1
    /\ Listening => txFrames = listens
    /\ ev = "write" => Transmitting
    /\ ev \in {"read", "in_waiting"} => Listening
    /\ pc = "closed" => txFrames = listens

\* move_to_angle has run to its end: two initialisation frames, two keepalive
\* frames, the tilt frame, two more keepalive frames, each with its listen
C4_Witness ==
    /\ pc = "closed"
    /\ moved = "True"
    /\ txFrames = 7
    /\ listens = 7

\* C5: when the device delivers no byte at all during a send/receive cycle,
\* _wait_for_response returns no response (None), and it returns no earlier
\* than 40 ms (400 ticks) after the wait began, the 15 ms sleep before the
\* first read included.
C5_TimeoutWithoutBytes ==
    (ev = "wait_ret" /\ rxCount = 0) => (retval = <<>> /\ now - wstart >= 400)

\* a keepalive cycle of run_polling_sequence that got no byte has timed out
C5_Witness ==
    /\ ev = "wait_ret"
    /\ pc = "poll_waited"
    /\ rxCount = 0
    /\ retval = <<>>
    /\ now - wstart >= 400

\* C6: within one run_polling_sequence the starts of two consecutive keepalive
\* transmissions are at least 1 s (10000 ticks) apart, whenever the responses
\* arrive, and the first keepalive is sent at the moment the sequence starts.
C6_DispatchSpacing ==
    /\ prevTx >= 0 => curTx - prevTx >= 10000
    /\ (curTx >= 0 /\ prevTx < 0) => curTx = pstart

\* the second keepalive of a sequence starts after a response had arrived
C6_Witness ==
    /\ pc = "send_first"
    /\ prevTx >= 0
    /\ curTx = now
    /\ retval # <<>>

\* a step that writes one byte to the transport
WritesByte == Len(sent') = Len(sent) + 1

\* a step of the listen loop that queries the transport (in_waiting / read)
QueriesTransport == pc = "wait_loop" /\ pc' = "wait_loop" /\ now' # now

\* C13: _send_command_with_timing writes the bytes of the frame one at a
\* time, each once and in frame order, so that what has been written is always
\* the frame's prefix and the whole frame when the call returns; the write of
\* the first byte is followed by a delay of at least 1.7 ms (17 ticks) and the
\* write of every later byte by one of at least 1 ms (10 ticks) before
\* anything else happens, so two writes of a frame are never less than 1 ms
\* apart.
C13_ByteByByte ==
    /\ [](Transmitting => (txi >= 1 /\ sent = SubSeq(command, 1, txi - 1)))
    /\ [][WritesByte =>
            /\ Transmitting
            /\ sent' = Append(sent, command[Len(sent) + 1])
            /\ now' - now >= (IF Len(sent) = 0 THEN 17 ELSE 10)]_vars
    /\ [][(Transmitting /\ ~Transmitting') => sent = command]_vars

\* the whole status frame has been written, the last byte's delay is over
C13_Witness ==
    /\ pc = "send_rest"
    /\ command = StatusCommand
    /\ txi = Len(command) + 1
    /\ sent = command
    /\ ev = "write"

\* C14: in every send/receive cycle the transport is queried or read for
\* response bytes only when the whole frame has been written and, after that,
\* the listen has begun and at least 15 ms (150 ticks) have passed since it
\* began.
C14_PreListenDelay ==
    /\ [](Listening => (sent = command /\ txi = Len(command) + 1))
    /\ [][(listens' # listens) => (sent = command /\ ~Transmitting /\ wstart' = now)]_vars
    /\ [][QueriesTransport => (sent = command /\ now - wstart >= 150)]_vars

\* the first query of a listen window, exactly 15 ms after the listen began,
\* reads a byte the device had already delivered
C14_Witness ==
    /\ ev = "read"
    /\ Len(response) = 1
    /\ now - wstart = 151
    /\ sent = command

\* C15 as stated: the listen ends as soon as the accumulated bytes meet the
\* caller's criterion -- the callers test the response for being non-empty --
\* without polling on for the rest of the timeout window, and it ends without
\* a response only once the timeout has elapsed.
C15_EarlyExit ==
    /\ [][QueriesTransport => response = <<>>]_vars
    /\ []((ev = "wait_ret" /\ retval = <<>>) => now - wstart >= 400)

\* C15, amended: the listen ends only when the 40 ms (400 ticks) of the
\* timeout have elapsed, never earlier, whatever has been accumulated; it then
\* returns the accumulated bytes -- a response if at least one byte was read,
\* no response (None) otherwise.
C15_TimeoutOnlyExit ==
    ev = "wait_ret" => (now - wstart >= 400 /\ retval = response)

\* a listen that had read bytes well before the end of its window and still
\* returned only after the timeout
C15_Witness ==
    /\ ev = "wait_ret"
    /\ Len(retval) = MaxRx
    /\ inbuf = <<>>
    /\ now - wstart >= 400

\* a keepalive frame of run_polling_sequence is being transmitted / listened for
PollTransmitting == Transmitting /\ stack # <<>> /\ Head(stack) = "poll_sent"

PollListening == Listening /\ stack # <<>> /\ Head(stack) = "poll_waited"

\* C16: in run_polling_sequence a keepalive transmission starts only while
\* the elapsed time is below the duration (never with duration <= 0); once
\* started, the transmission ends only with the whole frame written and its
\* listen only after the full window, also when the duration expires
\* meanwhile; the sequence returns only from the head of its loop, between
\* cycles.
C16_ExpiryAtCycleBoundary ==
    /\ [](curTx >= 0 => (curTx - pstart < duration /\ duration > 0))
    /\ [](pc = "poll_loop" => (txFrames = listens /\ (curTx >= 0 => sent = StatusCommand)))
    /\ [][(PollTransmitting /\ ~Transmitting') => (sent = command /\ pc' = "poll_sent")]_vars
    /\ [][(pc = "poll_sent" /\ pc' # pc) => PollListening']_vars
    /\ [][(PollListening /\ ~Listening') => (now - wstart >= 400 /\ pc' = "poll_waited")]_vars

\* a duration of 0.1 ms ran out while the first keepalive was being sent: the
\* frame was still written to its last byte and its listen window completed
C16_Witness ==
    /\ pc = "poll_waited"
    /\ ev = "wait_ret"
    /\ duration = 1
    /\ curTx = pstart
    /\ sent = StatusCommand
    /\ now - wstart >= 400
    /\ now - pstart >= duration

\* the keepalive cycle before the present moment ended without a response
LastCycleTimedOut == curTx >= 0 /\ retval = <<>>

\* C19: a listen that times out returns to its caller like any other (its
\* result is the value None), and in run_polling_sequence the cycle that timed
\* out is followed by the loop's next iteration: the sequence goes on idling
\* while the next keepalive is not due and, as long as the duration has not
\* expired, leaves the loop only to dispatch that keepalive, which it does as
\* soon as 1 s (10000 ticks) has passed since the last one was sent.
C19_TimeoutIsData ==
    /\ []((ev = "wait_ret" /\ retval = <<>>) =>
            pc \in {"init_send2", "main_op", "poll_waited", "move_resp"})
    /\ [][(pc = "poll_waited" /\ retval = <<>> /\ pc' # pc) =>
            (pc' = "poll_loop" /\ stack' = stack)]_vars
    /\ [][(pc = "poll_loop" /\ LastCycleTimedOut /\ now - pstart < duration /\ pc' # pc) =>
            (pc' = "send_first" /\ command' = StatusCommand
               /\ now - last_cmd_time >= 10000)]_vars
    /\ [][(pc = "poll_loop" /\ LastCycleTimedOut /\ now - pstart < duration
              /\ now - last_cmd_time >= 10000) => now' = now]_vars

\* the second keepalive of a sequence is dispatched although the first one
\* got no response
C19_Witness ==
    /\ pc = "send_first"
    /\ prevTx >= 0
    /\ curTx = now
    /\ retval = <<>>
    /\ command = StatusCommand

\* the bytes of the input buffer, oldest first
BytesOf(buf) == [k \in 1..Len(buf) |-> buf[k].byte]

\* the bytes the device has delivered since the last reset of the buffer
Delivered == SubSeq(SimulatedResponse, 1, rxCount)

\* C21: _wait_for_response terminates whatever the device does (no byte, some
\* bytes, a byte at successive polls): every listen that has begun ends; it
\* queries the transport only while fewer than 40 ms (400 ticks) have passed
\* since the wait began, reads at most one byte per query, and what it has
\* read -- and finally returns -- is the beginning of what the device
\* delivered, in the order of delivery, the unread rest being still in the
\* buffer.
C21_ListenTerminates ==
    /\ Listening ~> ~Listening
    /\ [][QueriesTransport =>
            /\ now - wstart < 400
            /\ Len(response') <= Len(response) + 1]_vars
    /\ [](Listening => response \o BytesOf(inbuf) = Delivered)
    /\ [](ev = "wait_ret" =>
            /\ retval = response
            /\ retval = SubSeq(Delivered, 1, Len(retval)))

\* a listen that read the device's bytes at two successive polls and returned
\* them
C21_Witness ==
    /\ ev = "wait_ret"
    /\ rxCount = MaxRx
    /\ retval = Delivered
    /\ Len(retval) >= 2

\* a send/receive cycle begins: _send_command_with_timing is entered
CycleBegins == txFrames' # txFrames

\* the listen loop takes a byte into its response buffer
TakesByte == Listening /\ response' # response

\* C22: a send/receive cycle begins with the clearing of the input buffer,
\* before any byte of the frame is written; so the buffer never holds a byte
\* delivered before the current cycle began, every byte the listen loop takes
\* is one delivered during the current cycle, and the returned response is the
\* beginning of what the device delivered since this cycle's clearing: no
\* byte left unread by an earlier cycle is in it.
C22_FreshResponse ==
    /\ [][CycleBegins =>
            /\ txFrames' = txFrames + 1
            /\ inbuf' = <<>>
            /\ sent' = <<>>
            /\ ~WritesByte]_vars
    /\ [](\A k \in 1..Len(inbuf) : inbuf[k].cycle = txFrames)
    /\ [][TakesByte =>
            /\ inbuf # <<>>
            /\ Head(inbuf).cycle = txFrames
            /\ response' = Append(response, Head(inbuf).byte)]_vars
    /\ [](ev = "wait_ret" =>
            \E n \in 0..rxCount : retval = SubSeq(SimulatedResponse, 1, n))

\* the first cycle has returned the first byte of the device's answer and
\* left the second one unread in the buffer, and the second transmission is
\* about to begin
C22_Witness ==
    /\ pc = "init_send2"
    /\ txFrames = 1
    /\ retval = <<SimulatedResponse[1]>>
    /\ BytesOf(inbuf) = <<SimulatedResponse[2]>>

\* move_to_angle is in its second polling sequence, or has just left it
AfterTiltResponse ==
    \/ pc = "move_done"
    \/ \E k \in 1..Len(stack) : stack[k] = "move_done"

\* a polling sequence of 2 seconds has run to its end and is the last thing
\* that happened
PolledTwoSeconds ==
    /\ duration = MovePollDuration
    /\ now - pstart >= MovePollDuration
    /\ command = StatusCommand
    /\ curTx >= pstart
    /\ listens = txFrames

\* C23: move_to_angle runs a polling sequence of 2 seconds, then transmits
\* the tilt command, then listens once.  If that listen returned no byte it
\* returns False and nothing is transmitted afterwards; otherwise it runs a
\* second polling sequence of 2 seconds and returns True.  True is returned
\* only after the tilt command's listen returned at least one byte.
C23_MoveOrder ==
    /\ [](pc = "move_tilt" => PolledTwoSeconds)
    /\ [][(command' = TiltCommand /\ command # TiltCommand) =>
            /\ pc = "move_tilt"
            /\ stack' = <<"move_wait">> \o stack]_vars
    /\ [](pc = "move_wait" => sent = TiltCommand /\ listens = txFrames - 1)
    /\ [](pc = "move_resp" =>
            /\ ev = "wait_ret"
            /\ sent = TiltCommand
            /\ listens = txFrames)
    /\ [][(pc = "move_resp" /\ pc' # "move_resp") =>
            IF retval = <<>>
            THEN /\ moved' = "False"
                 /\ pc' = "main_close"
                 /\ txFrames' = txFrames
            ELSE /\ moved' = moved
                 /\ pc' = "poll_loop"
                 /\ stack' = <<"move_done">> \o stack
                 /\ duration' = MovePollDuration
                 /\ pstart' = now]_vars
    /\ [][(AfterTiltResponse' /\ ~AfterTiltResponse) =>
            (pc = "move_resp" /\ retval # <<>>)]_vars
    /\ [](pc = "move_done" => PolledTwoSeconds)
    /\ [][(moved' # moved) =>
            /\ moved = "none"
            /\ \/ moved' = "True" /\ pc = "move_done"
               \/ moved' = "False" /\ pc = "move_resp" /\ retval = <<>>]_vars
    /\ [][(moved # "none") => (txFrames' = txFrames /\ sent' = sent)]_vars
    /\ [](moved = "False" => sent = TiltCommand /\ retval = <<>>)

\* move_to_angle has returned True: the tilt command was the fifth frame and
\* got an answer, and the second polling sequence sent two more
C23_Witness ==
    /\ moved = "True"
    /\ pc = "main_close"
    /\ PolledTwoSeconds
    /\ txFrames = 7

-----------------------------------------------------------------------------
(* Properties of OE10Commander's session (checked under SpecCmd) *)

\* the session is connected: connect has bound a Serial object that has not
\* been closed since
Connected ==
    /\ serial # <<>>
    /\ serial[1] \in 1..Len(ports)
    /\ ports[serial[1]].is_open

\* the step is a call of the method m
Calls(m) == calls' = calls + 1 /\ lastCall' = m

\* the step writes to, or reads from, the k-th Serial object
Touches(k) ==
    /\ k <= Len(ports')
    /\ \/ ports'[k].writes # ports[k].writes
       \/ ports'[k].last_write # ports[k].last_write
       \/ ports'[k].reads # ports[k].reads

\* C24: whatever connect, disconnect and send_tilt_command calls were made, a
\* step writes to a Serial object only as a send_tilt_command on a connected
\* session, and to the object the session is bound to; a Serial object is
\* created unwritten; send_tilt_command on a session that is not connected
\* (never connected, or disconnected) returns {'error': 'Serial port not
\* open'} at once and writes nothing, reads nothing and changes nothing of
\* the session; disconnect on such a session changes nothing.
C24_WritesOnlyConnected ==
    /\ [][\A k \in 1..Len(ports) :
            Touches(k) =>
              /\ Connected
              /\ serial = <<k>>
              /\ Calls("send_tilt_command")
              /\ ports'[k].writes = ports[k].writes + 1
              /\ ports'[k].is_open]_vars
    /\ [][(Len(ports') # Len(ports)) =>
              /\ Calls("connect")
              /\ ports' = Append(SubSeq(ports', 1, Len(ports)), NewPort)]_vars
    /\ [][(Calls("send_tilt_command") /\ ~Connected) =>
              /\ cmdResult' = NotOpenError
              /\ cmdPc' = "idle"
              /\ UNCHANGED <<serial, ports, decVars>>]_vars
    /\ [][(Calls("disconnect") /\ ~Connected) =>
              /\ cmdResult' = <<>>
              /\ UNCHANGED <<cmdPc, serial, ports, decVars>>]_vars
    /\ [](cmdResult = NotOpenError => (lastCall = "send_tilt_command" => ~Connected))

\* a session that was connected, has sent one command and was disconnected:
\* the next send_tilt_command has returned the error and the closed
\* Serial object still counts one write
C24_Witness ==
    /\ calls = 4
    /\ lastCall = "send_tilt_command"
    /\ cmdPc = "idle"
    /\ cmdResult = NotOpenError
    /\ serial = <<1>>
    /\ ports = <<[is_open |-> FALSE, writes |-> 1,
                  last_write |-> CommanderTiltCommand, reads |-> 1]>>

-----------------------------------------------------------------------------
(* Properties of the link over a failing transport (checked under SpecFail) *)

\* C17: when a transport call has raised during a send/receive cycle of
\* run_polling_sequence or move_to_angle, the operation main called does not
\* come back like a completed one: by the time main closes the controller the
\* operation has reported the failure (move_to_angle's False; an operation
\* that reports nothing does not come back to main's normal path at all).
C17_FailureSurfaced ==
    (raised /\ pc \in {"main_close", "closed"}) => moved = "False"

-----------------------------------------------------------------------------
(* Properties of the command builders (checked under SpecEnc) *)

\* C20: every command frame a builder returns starts with 0x58, has 0x00 as
\* its last byte and nowhere else, and contains no 0x16: its sync filler is
\* 0x8B.
C20_OutboundMarkers ==
    encPc = "done" =>
        /\ Len(command_bytes) >= 2
        /\ command_bytes[1] = 88
        /\ command_bytes[Len(command_bytes)] = 0
        /\ \A k \in 1..(Len(command_bytes) - 1) : command_bytes[k] \notin {0, 22}

====
